---- MODULE Spec2Model ----
(***************************************************************************)
(* Model of the sound-level meter core of noisemeter-device:               *)
(*   SPLMeter::initMicrophone, SPLMeter::readMicrophoneData and            *)
(*   SPLMeter::i2sRead (spl-meter.cpp), and of Timestamp::synchronize      *)
(*   (timestamp.h).                                                        *)
(*                                                                         *)
(* Numbers.  Sample amplitudes are small integers, so sums of squares are  *)
(* exact integers (float rounding is not modelled).  A decibel value is    *)
(* never computed as a number: the comparisons of short_SPL_dB with the    *)
(* two thresholds are made on the mean square, which the formula           *)
(* 94 + 20*log10(rms / MIC_REF_AMPL) maps monotonically to decibels, and   *)
(* the degenerate results of sqrt/log10 (NaN, -inf, +inf) are kept as      *)
(* classes.                                                                *)
(*                                                                         *)
(* Missing sources.  board.h, spl-meter.h and sos-iir-filter.h are not at  *)
(* hand: SAMPLE_RATE, SAMPLES_SHORT, SAMPLE_BITS, the two thresholds and   *)
(* the filter evaluator follow the specification text.                     *)
(***************************************************************************)
EXTENDS Integers, Sequences, FiniteSets, TLC

VARIABLES
    SAMPLE_RATE,     \* samples per second (configuration, fixed per run)
    SAMPLES_SHORT,   \* samples.size(): block length (configuration, fixed per run)
    burstLen,        \* longest non-silent prefix of a block the microphone delivers in this run
    pc,              \* "boot" before initMicrophone, "run" after
    samples,         \* the shared buffer: [kind |-> "raw" | "float", v |-> sequence]
    Leq_sum_sqr,     \* running sum of squares
    Leq_samples,     \* samples accumulated in the current window
    eqState,         \* delay line of MIC_EQUALIZER
    wState,          \* delay line of WEIGHTING
    ret,             \* what the last readMicrophoneData call returned
    call,            \* observations of the last readMicrophoneData call
    window,          \* observations of the calls of the current Leq window
    fed,             \* converted samples fed to the filters since boot (bounded history)
    fedSum,          \* sum of the weighted sums of squares of the calls recorded in fed
    fedOver,         \* TRUE once the history no longer fits MaxFed
    tm_clock,        \* what std::time(nullptr) returns now (seconds)
    ntp,             \* "off", "pending" after configTime, "synced" once the clock was set
    sync_pc,         \* Timestamp::synchronize: "idle", "delay", "check" or "done"
    sync_tm,         \* tm of the Timestamp constructed by the last loop test
    sync_delays      \* delay(1000) calls completed by synchronize (counted up to MaxDelays)

syncVars == <<tm_clock, ntp, sync_pc, sync_tm, sync_delays>>

vars == <<SAMPLE_RATE, SAMPLES_SHORT, burstLen, pc, samples, Leq_sum_sqr,
          Leq_samples, eqState, wState, ret, call, window, fed, fedSum, fedOver,
          tm_clock, ntp, sync_pc, sync_tm, sync_delays>>

(***************************************************************************)
(* Bounds of the model                                                     *)
(***************************************************************************)
MaxRate == 4      \* largest window size (in samples) of the small configurations
MaxSize == 3      \* largest block length of the small configurations
MaxBurst == 2     \* longest non-silent prefix of a delivered block
MaxFed == 6       \* length of the history of fed samples
MaxLead == 8      \* how far from the validity threshold the clock starts and runs
MaxDelays == 4    \* delays of synchronize that are counted

(***************************************************************************)
(* Constants & Config                                                      *)
(***************************************************************************)
LEQ_PERIOD == 1
MIC_BITS == 24
SAMPLE_BITS == 32
MIC_OVERLOAD_DB == 120
MIC_NOISE_DB == 29

\* Mean square above which short_SPL_dB > MIC_OVERLOAD_DB, and below which
\* short_SPL_dB < MIC_NOISE_DB (thresholds of the scaled amplitude range).
OVERLOAD_MEAN_SQR == 4
NOISE_MEAN_SQR == 2

\* The scenario of the specification: 48000 samples per second, blocks of 1000.
ScenarioRate == 48000
ScenarioSize == 1000

\* Raw 32-bit words the microphone delivers: amplitudes 0, 1 and -2 in the
\* upper MIC_BITS bits, with some junk in the lower bits.
RawSamples == {0, 300, -468}

\* MIC_CONVERT(s): arithmetic shift right by SAMPLE_BITS - MIC_BITS.
MIC_CONVERT(s) == s \div (2 ^ (SAMPLE_BITS - MIC_BITS))

SAMPLES_LEQ == SAMPLE_RATE * LEQ_PERIOD

(***************************************************************************)
(* Second-order-section filter (one section per role)                      *)
(***************************************************************************)
\* Coefficients: y[n] = f0 + b1*w0 + b2*w1, f0 = x[n] - a1*w0 - a2*w1.
MIC_EQUALIZER == [b1 |-> -1, b2 |-> 0, a1 |-> 0, a2 |-> 0]
WEIGHTING == [b1 |-> 1, b2 |-> 2, a1 |-> 0, a2 |-> 0]

ZeroState == <<0, 0>>

\* One sample through one section: new delay line and output sample.
sos_filter(c, w, x) ==
    LET f0 == x - c.a1 * w[1] - c.a2 * w[2]
    IN [w |-> <<f0, w[1]>>, y |-> f0 + c.b1 * w[1] + c.b2 * w[2]]

AllZero(s, lo, hi) == \A i \in lo..hi : s[i] = 0

\* filter(input, output, n) over input[lo..hi] from delay line w: the final
\* delay line, the filtered samples and their sum of squares.  A stretch of
\* zero input on a zero delay line gives zero output and is not stepped through.
RECURSIVE filterRange(_, _, _, _, _)
filterRange(c, w, s, lo, hi) ==
    IF lo > hi THEN [w |-> w, out |-> <<>>, sum_sqr |-> 0]
    ELSE IF w = ZeroState /\ AllZero(s, lo, hi)
    THEN [w |-> w, out |-> [i \in 1..(hi - lo + 1) |-> 0], sum_sqr |-> 0]
    ELSE IF lo = hi
    THEN LET r == sos_filter(c, w, s[lo])
         IN [w |-> r.w, out |-> <<r.y>>, sum_sqr |-> r.y * r.y]
    ELSE LET mid == (lo + hi) \div 2
             a == filterRange(c, w, s, lo, mid)
             b == filterRange(c, a.w, s, mid + 1, hi)
         IN [w |-> b.w, out |-> a.out \o b.out, sum_sqr |-> a.sum_sqr + b.sum_sqr]

filter(c, w, s) == filterRange(c, w, s, 1, Len(s))

(***************************************************************************)
(* Decibel conversion, by class                                            *)
(***************************************************************************)
\* Class of MIC_OFFSET_DB + MIC_REF_DB + 20 * log10(sqrt(sum / n) / MIC_REF_AMPL):
\* 0/0 is NaN, x/0 is +inf, log10(0) is -inf, sqrt of a negative is NaN.
DbClass(sum, n) ==
    IF n = 0 THEN (IF sum > 0 THEN "+inf" ELSE "nan")
    ELSE IF sum < 0 THEN "nan"
    ELSE IF sum = 0 THEN "-inf"
    ELSE "finite"

AboveOverload_ge(sum, n) ==
    \/ DbClass(sum, n) = "+inf"
    \/ DbClass(sum, n) = "finite" /\ sum >= OVERLOAD_MEAN_SQR * n

\* short_SPL_dB > MIC_OVERLOAD_DB
AboveOverload(sum, n) ==
    \/ DbClass(sum, n) = "+inf"
    \/ DbClass(sum, n) = "finite" /\ sum > OVERLOAD_MEAN_SQR * n

NanOrBelowNoise_nanOnly(sum, n) == DbClass(sum, n) = "nan"

\* std::isnan(short_SPL_dB) || short_SPL_dB < MIC_NOISE_DB
NanOrBelowNoise(sum, n) ==
    \/ DbClass(sum, n) \in {"nan", "-inf"}
    \/ DbClass(sum, n) = "finite" /\ sum < NOISE_MEAN_SQR * n

NoValue == [has |-> FALSE, class |-> "none", sum |-> 0, n |-> 0]

\* The Leq value of line 110, kept as the pair it is computed from.
LeqValue(sum, n) == [has |-> TRUE, class |-> DbClass(sum, n), sum |-> sum, n |-> n]

(***************************************************************************)
(* Acquisition                                                             *)
(***************************************************************************)
Min(a, b) == IF a < b THEN a ELSE b

\* Blocks the microphone can deliver: a prefix of at most burstLen arbitrary
\* words followed by silence.
RawBlocks(n, burst) ==
    { [i \in 1..n |-> IF i <= Len(p) THEN p[i] ELSE 0] :
        p \in [1..Min(n, burst) -> RawSamples] }

\* The integer view of the buffer when i2s_read wrote nothing: the words of
\* the previous fetch if they were never converted, otherwise the bit
\* patterns of the floats left by the last call (any word).
StaleViews(buf, n, burst) ==
    IF buf.kind = "raw" THEN {buf.v} ELSE RawBlocks(n, burst)

NoCall == [fetch |-> "none", bytes_read |-> 0, sum_sqr_SPL |-> 0, sum_sqr_weighted |-> 0,
           branch |-> "none", accSum |-> 0, accSamples |-> 0, silent |-> FALSE]

NoWindow == [calls |-> 0, branches |-> {}, silent |-> FALSE, valid |-> TRUE]

(***************************************************************************)
(* Initial states                                                          *)
(***************************************************************************)
InitState ==
    /\ pc = "boot"
    /\ samples = [kind |-> "raw", v |-> [i \in 1..SAMPLES_SHORT |-> 0]]
    /\ Leq_sum_sqr = 0
    /\ Leq_samples = 0
    /\ eqState = ZeroState
    /\ wState = ZeroState
    /\ ret = NoValue
    /\ call = NoCall
    /\ window = NoWindow
    /\ fed = <<>>
    /\ fedSum = 0
    /\ fedOver = FALSE

\* Timestamp::synchronize has not been called.
SyncIdle ==
    /\ tm_clock = 0
    /\ ntp = "off"
    /\ sync_pc = "idle"
    /\ sync_tm = 0
    /\ sync_delays = 0

Init ==
    /\ SAMPLE_RATE \in 4..MaxRate
    /\ SAMPLES_SHORT \in 1..MaxSize
    /\ burstLen = MaxBurst
    /\ InitState
    /\ SyncIdle

InitScenario ==
    /\ SAMPLE_RATE = ScenarioRate
    /\ SAMPLES_SHORT = ScenarioSize
    /\ burstLen = 1
    /\ InitState
    /\ SyncIdle

(***************************************************************************)
(* Actions                                                                 *)
(***************************************************************************)
\* i2sRead(): i2s_read either fills the whole buffer (ok) or fails and
\* writes nothing; its status and bytes_read are ignored.
i2sRead(ok, blk) ==
    IF ok THEN [kind |-> "raw", v |-> blk] ELSE samples

initMicrophone_counted ==
    /\ pc = "boot"
    /\ \E ok \in BOOLEAN, blk \in RawBlocks(SAMPLES_SHORT, burstLen) :
          samples' = i2sRead(ok, blk)
    /\ pc' = "run"
    /\ Leq_samples' = Leq_samples + SAMPLES_SHORT
    /\ UNCHANGED <<SAMPLE_RATE, SAMPLES_SHORT, burstLen, Leq_sum_sqr,
                   eqState, wState, ret, call, window, fed, fedSum, fedOver>>
    /\ UNCHANGED syncVars

\* initMicrophone(): install the driver, read and discard one block.
initMicrophone ==
    /\ pc = "boot"
    /\ \E ok \in BOOLEAN, blk \in RawBlocks(SAMPLES_SHORT, burstLen) :
          samples' = i2sRead(ok, blk)
    /\ pc' = "run"
    /\ UNCHANGED <<SAMPLE_RATE, SAMPLES_SHORT, burstLen, Leq_sum_sqr, Leq_samples,
                   eqState, wState, ret, call, window, fed, fedSum, fedOver>>
    /\ UNCHANGED syncVars

\* Lines 94 and 96: which clamp branch the short-block level selects.
ClampBranch(sum_sqr_SPL, n) ==
    IF AboveOverload(sum_sqr_SPL, n) THEN "overload"
    ELSE IF NanOrBelowNoise(sum_sqr_SPL, n) THEN "noise"
    ELSE "none"

Clamp_add(branch, sum) ==
    CASE branch = "overload" -> sum + MIC_OVERLOAD_DB
      [] branch = "noise" -> sum + MIC_NOISE_DB
      [] OTHER -> sum

Clamp_noNoise(branch, sum) ==
    IF branch = "overload" THEN MIC_OVERLOAD_DB ELSE sum

\* Lines 95 and 97: the running sum after the clamp.
Clamp(branch, sum) ==
    CASE branch = "overload" -> MIC_OVERLOAD_DB
      [] branch = "noise" -> MIC_NOISE_DB
      [] OTHER -> sum

CountAfter_one(count, n) == count + 1

CountAfter_bytes(count, n) == count + n * (SAMPLE_BITS \div 8)

\* Line 102: Leq_samples += samples.size().
CountAfter(count, n) == count + n

WindowFull_strict(count) == count > SAMPLE_RATE * LEQ_PERIOD

\* Line 105: enough samples gathered for a new Leq value.
WindowFull(count) == count >= SAMPLE_RATE * LEQ_PERIOD

SumAfterCheck_keep(emit, accSum) == accSum

\* Lines 107 and 108: the accumulator after the emit check.
SumAfterCheck(emit, accSum) == IF emit THEN 0 ELSE accSum

CountAfterCheck_carry(emit, accSamples) ==
    IF emit THEN accSamples - SAMPLE_RATE * LEQ_PERIOD ELSE accSamples

CountAfterCheck(emit, accSamples) == IF emit THEN 0 ELSE accSamples

\* Lines 89-113 of readMicrophoneData(): the clamp, the accumulation and
\* the emission, given the results eq and wt of the two filter stages on the
\* converted block conv.
accumulate(ok, conv, eq, wt) ==
    LET n == Len(conv)
        sum_sqr_SPL == eq.sum_sqr
        sum_sqr_weighted == wt.sum_sqr
        branch == ClampBranch(sum_sqr_SPL, n)
        accSum == Clamp(branch, Leq_sum_sqr) + sum_sqr_weighted
        accSamples == CountAfter(Leq_samples, n)
        emit == WindowFull(accSamples)
        silent == AllZero(conv, 1, n) /\ DbClass(sum_sqr_SPL, n) \in {"nan", "-inf"}
        w0 == IF ret.has THEN NoWindow ELSE window
    IN  /\ samples' = [kind |-> "float", v |-> wt.out]
        /\ eqState' = eq.w
        /\ wState' = wt.w
        /\ Leq_sum_sqr' = SumAfterCheck(emit, accSum)
        /\ Leq_samples' = CountAfterCheck(emit, accSamples)
        /\ ret' = IF emit THEN LeqValue(accSum, accSamples) ELSE NoValue
        /\ call' = [fetch |-> IF ok THEN "ok" ELSE "fail",
                    bytes_read |-> IF ok THEN n ELSE 0,
                    sum_sqr_SPL |-> sum_sqr_SPL, sum_sqr_weighted |-> sum_sqr_weighted,
                    branch |-> branch, accSum |-> accSum, accSamples |-> accSamples,
                    silent |-> silent]
        /\ window' = [calls |-> w0.calls + 1,
                      branches |-> w0.branches \cup {branch},
                      silent |-> w0.silent \/ silent,
                      valid |-> w0.valid /\ ok]
        /\ IF ~fedOver /\ Len(fed) + n <= MaxFed
           THEN fed' = fed \o conv /\ fedSum' = fedSum + sum_sqr_weighted
                /\ fedOver' = FALSE
           ELSE fed' = <<>> /\ fedSum' = 0 /\ fedOver' = TRUE

processBlock_unequalized(ok, ints) ==
    \E conv \in {[i \in 1..Len(ints) |-> MIC_CONVERT(ints[i])]} :
      \E eq \in {filter(MIC_EQUALIZER, eqState, conv)} :
        \E wt \in {filter(WEIGHTING, wState, conv)} :
          accumulate(ok, conv, eq, wt)

processBlock_shared(ok, ints) ==
    \E conv \in {[i \in 1..Len(ints) |-> MIC_CONVERT(ints[i])]} :
      \E eq \in {filter(MIC_EQUALIZER, eqState, conv)} :
        \E wt \in {filter(WEIGHTING, eq.w, eq.out)} :
          accumulate(ok, conv, eq, wt)

\* Lines 75-87 of readMicrophoneData(): convert the integer view `ints` of
\* the buffer, run the equalizer, run the weighting on the equalized block.
processBlock(ok, ints) ==
    \E conv \in {[i \in 1..Len(ints) |-> MIC_CONVERT(ints[i])]} :
      \E eq \in {filter(MIC_EQUALIZER, eqState, conv)} :
        \E wt \in {filter(WEIGHTING, wState, eq.out)} :
          accumulate(ok, conv, eq, wt)

\* readMicrophoneData(): fetch, convert, filter twice, clamp, accumulate, emit.
readMicrophoneData ==
    /\ pc = "run"
    /\ \E ok \in BOOLEAN :
         \E ints \in (IF ok THEN RawBlocks(SAMPLES_SHORT, burstLen)
                      ELSE StaleViews(samples, SAMPLES_SHORT, burstLen)) :
            processBlock(ok, IF ok THEN i2sRead(ok, ints).v ELSE ints)
    /\ UNCHANGED <<SAMPLE_RATE, SAMPLES_SHORT, burstLen, pc>>
    /\ UNCHANGED syncVars

Next == initMicrophone \/ readMicrophoneData

Spec == Init /\ [][Next]_vars

SpecScenario == InitScenario /\ [][Next]_vars

(***************************************************************************)
(* Timestamp::synchronize (timestamp.h)                                    *)
(***************************************************************************)
meterVars == <<SAMPLE_RATE, SAMPLES_SHORT, burstLen, pc, samples, Leq_sum_sqr,
               Leq_samples, eqState, wState, ret, call, window, fed, fedSum, fedOver>>

\* Timestamp::valid() of a Timestamp whose tm is t.
valid(t) == t >= 8 * 3600 * 2

\* The largest clock value followed; the clock stops there.
MaxClock == 8 * 3600 * 2 + MaxLead

\* Clock values at the call of synchronize: a few seconds before the
\* threshold, or already valid.
BootClocks == (8 * 3600 * 2 - MaxLead) .. (8 * 3600 * 2)

\* Clock values the time server can set.
NtpTimes == {8 * 3600 * 2, MaxClock}

LoopEntry_while == "check"

\* do { ... } while (...): the body runs before the first test.
LoopEntry == "delay"

InitSync ==
    /\ SAMPLE_RATE \in 4..MaxRate
    /\ SAMPLES_SHORT \in 1..MaxSize
    /\ burstLen = MaxBurst
    /\ InitState
    /\ tm_clock \in BootClocks
    /\ ntp = "off"
    /\ sync_pc = "idle"
    /\ sync_tm = 0
    /\ sync_delays = 0

\* Line 25: configTime(0, 0, "pool.ntp.org"), then enter the loop.
synchronize_start ==
    /\ sync_pc = "idle"
    /\ ntp' = "pending"
    /\ sync_pc' = LoopEntry
    /\ UNCHANGED <<tm_clock, sync_tm, sync_delays>>
    /\ UNCHANGED meterVars

\* Line 28: delay(1000); one second passes on the clock.
synchronize_delay ==
    /\ sync_pc = "delay"
    /\ tm_clock' = IF tm_clock < MaxClock THEN tm_clock + 1 ELSE tm_clock
    /\ sync_delays' = IF sync_delays < MaxDelays THEN sync_delays + 1 ELSE sync_delays
    /\ sync_pc' = "check"
    /\ UNCHANGED <<ntp, sync_tm>>
    /\ UNCHANGED meterVars

\* Line 29: while (!Timestamp().valid()); the Timestamp reads the clock.
synchronize_check ==
    /\ sync_pc = "check"
    /\ sync_tm' = tm_clock
    /\ sync_pc' = IF valid(tm_clock) THEN "done" ELSE "delay"
    /\ UNCHANGED <<tm_clock, ntp, sync_delays>>
    /\ UNCHANGED meterVars

synchronize == synchronize_start \/ synchronize_delay \/ synchronize_check

\* The time client started by configTime sets the clock, at any moment.
ntpUpdate ==
    /\ ntp = "pending"
    /\ tm_clock' \in NtpTimes
    /\ ntp' = "synced"
    /\ UNCHANGED <<sync_pc, sync_tm, sync_delays>>
    /\ UNCHANGED meterVars

NextSync == synchronize_start \/ synchronize_delay \/ synchronize_check \/ ntpUpdate

\* The calling task keeps running: delay returns and the loop test is made.
SpecSync == InitSync /\ [][NextSync]_vars /\ WF_vars(synchronize)

(***************************************************************************)
(* Properties                                                              *)
(***************************************************************************)
Called == call.fetch # "none"

\* C1: with valid blocks, a call returns a Leq value if and only if the
\* samples gathered since the last emission (calls of the window times the
\* block length) reach SAMPLE_RATE * LEQ_PERIOD during that call; the
\* threshold had not been reached before that call, so no emission is
\* skipped and none is doubled.
C1_EmitIffThreshold ==
    (Called /\ window.valid) =>
        /\ ret.has <=> window.calls * SAMPLES_SHORT >= SAMPLES_LEQ
        /\ (window.calls - 1) * SAMPLES_SHORT < SAMPLES_LEQ

C1_Witness ==
    /\ Called /\ window.valid /\ ret.has
    /\ window.calls > 1
    /\ window.calls * SAMPLES_SHORT > SAMPLES_LEQ

\* C2: between calls Leq_samples is below the window size, and when the
\* count reached the window size inside a call both Leq_samples and
\* Leq_sum_sqr are 0 after it.
C2_CountBelowWindow ==
    /\ Leq_samples < SAMPLES_LEQ
    /\ (Called /\ call.accSamples >= SAMPLES_LEQ) =>
           (Leq_samples = 0 /\ Leq_sum_sqr = 0)
    /\ Leq_samples = 0 => Leq_sum_sqr = 0

C2_Witness ==
    /\ Called /\ call.accSamples > SAMPLES_LEQ /\ call.accSum > 0
    /\ Leq_samples = 0 /\ Leq_sum_sqr = 0

\* C3: if a block of the window was above the overload threshold, the
\* emitted Leq is computed from a running sum equal to exactly the overload
\* value.
C3_OverloadExact ==
    (ret.has /\ "overload" \in window.branches) => ret.sum = MIC_OVERLOAD_DB

C6_FailedFetchNoEffect ==
    [][(pc = "run" /\ call'.fetch = "fail") =>
          /\ Leq_sum_sqr' = Leq_sum_sqr
          /\ Leq_samples' = Leq_samples
          /\ eqState' = eqState
          /\ wState' = wState]_vars

\* C7: the result of a call whose fetch failed differs from the empty
\* result "no measurement available this cycle".
C7_FailureDistinct ==
    call.fetch = "fail" => ret # NoValue

\* C8: at 48000 samples per second and blocks of 1000, the call that
\* returns a value is the 48th of its cycle and the other 47 return none.
C8_FortyEightCalls ==
    (SAMPLE_RATE = ScenarioRate /\ SAMPLES_SHORT = ScenarioSize /\ Called) =>
        /\ window.calls \in 1..48
        /\ ret.has <=> window.calls = 48

C8_Witness ==
    /\ SAMPLE_RATE = ScenarioRate /\ SAMPLES_SHORT = ScenarioSize
    /\ ret.has /\ window.calls = 48 /\ fedOver

\* The signal fed so far, passed through both filters in blocks of size 1.
RECURSIVE singleSampleRun(_, _, _, _, _)
singleSampleRun(sig, i, ew, ww, acc) ==
    IF i > Len(sig) THEN [eq |-> ew, wt |-> ww, sum_sqr |-> acc]
    ELSE LET e == filter(MIC_EQUALIZER, ew, <<sig[i]>>)
             w == filter(WEIGHTING, ww, e.out)
         IN singleSampleRun(sig, i + 1, e.w, w.w, acc + w.sum_sqr)

\* C9: the delay lines persist across calls and emissions: after any
\* number of calls with blocks of size N, both delay lines and the total
\* weighted sum of squares equal those of the same signal fed in blocks of
\* size 1 through two separate delay lines.
C9_FilterContinuity ==
    ~fedOver =>
        LET r == singleSampleRun(fed, 1, ZeroState, ZeroState, 0)
        IN eqState = r.eq /\ wState = r.wt /\ fedSum = r.sum_sqr

C9_Witness ==
    /\ ~fedOver /\ SAMPLES_SHORT > 1 /\ Len(fed) > SAMPLES_LEQ
    /\ eqState # ZeroState /\ wState # ZeroState /\ eqState # wState
    /\ fedSum > 0

\* C10: a call whose fetch delivered a block of another length than
\* samples.size() neither accumulates nor emits.
C10_MismatchStops ==
    [][(pc = "run" /\ call'.bytes_read # SAMPLES_SHORT) =>
          (~ret'.has /\ Leq_samples' = Leq_samples)]_vars

\* C11: for a block above the overload threshold the running sum right
\* after the accumulate step is MIC_OVERLOAD_DB plus the block's weighted
\* sum of squares, for a block that is NaN or below the noise floor it is
\* MIC_NOISE_DB plus that sum, whatever Leq_sum_sqr was before; the
\* overload test comes first and the two branches exclude each other.
C11_ClampTransition ==
    Called =>
        /\ call.branch = "overload" =>
               call.accSum = MIC_OVERLOAD_DB + call.sum_sqr_weighted
        /\ call.branch = "noise" =>
               call.accSum = MIC_NOISE_DB + call.sum_sqr_weighted
        /\ call.branch = "overload" <=>
               AboveOverload(call.sum_sqr_SPL, SAMPLES_SHORT)
        /\ call.branch = "noise" <=>
               (~AboveOverload(call.sum_sqr_SPL, SAMPLES_SHORT)
                   /\ NanOrBelowNoise(call.sum_sqr_SPL, SAMPLES_SHORT))

C11_Witness ==
    /\ Called /\ call.branch = "overload" /\ window.calls > 1
    /\ "noise" \in window.branches
    /\ call.sum_sqr_weighted > 0

\* C12: for a block whose short level lies between the noise floor and the
\* overload threshold, both included, the running sum after the accumulate
\* step is the running sum before the call plus the block's weighted sum of
\* squares.
C12_InRangeAdds ==
    [][(pc = "run"
          /\ call'.sum_sqr_SPL >= NOISE_MEAN_SQR * SAMPLES_SHORT
          /\ call'.sum_sqr_SPL <= OVERLOAD_MEAN_SQR * SAMPLES_SHORT) =>
             call'.accSum = Leq_sum_sqr + call'.sum_sqr_weighted]_vars

C12_Witness ==
    /\ Called /\ call.branch = "none" /\ window.calls > 1 /\ ~ret.has
    /\ call.sum_sqr_SPL = OVERLOAD_MEAN_SQR * SAMPLES_SHORT
    /\ Leq_sum_sqr > call.sum_sqr_weighted

\* C13: a call runs the equalizer once on the converted block, the
\* weighting once on the equalized block, then clamps on the level of the
\* equalized sum of squares, accumulates the weighted sum of squares and
\* only then tests the count for emission.
C13_StepOrder ==
    [][(pc = "run" /\ ~fedOver') =>
          LET conv == SubSeq(fed', Len(fed) + 1, Len(fed'))
              eq == filter(MIC_EQUALIZER, eqState, conv)
              wt == filter(WEIGHTING, wState, eq.out)
          IN /\ eqState' = eq.w /\ wState' = wt.w /\ samples'.v = wt.out
             /\ call'.sum_sqr_SPL = eq.sum_sqr
             /\ call'.sum_sqr_weighted = wt.sum_sqr
             /\ call'.branch = ClampBranch(eq.sum_sqr, Len(conv))
             /\ call'.accSum = Clamp(call'.branch, Leq_sum_sqr) + wt.sum_sqr
             /\ call'.accSamples = Leq_samples + Len(conv)
             /\ ret'.has <=> call'.accSamples >= SAMPLES_LEQ
             /\ ret'.has => (ret'.sum = call'.accSum /\ ret'.n = call'.accSamples)]_vars

C13_Witness ==
    /\ Called /\ ~fedOver /\ ret.has
    /\ call.branch = "none"
    /\ ClampBranch(call.sum_sqr_weighted, SAMPLES_SHORT) = "overload"
    /\ eqState # ZeroState

\* C15: every call adds exactly the block length to Leq_samples whichever
\* clamp branch it takes, so whether a call emits depends only on its
\* position in the window, not on the samples.
C15_TimingIgnoresContent ==
    [][pc = "run" =>
          /\ call'.accSamples = Leq_samples + SAMPLES_SHORT
          /\ ret'.has <=> window'.calls * SAMPLES_SHORT >= SAMPLES_LEQ]_vars

C15_Witness ==
    /\ ret.has /\ window.branches = {"overload", "noise", "none"}
    /\ ~window.valid

\* Calls per window: the least number of blocks that reach the window size.
CallsPerWindow == (SAMPLES_LEQ + SAMPLES_SHORT - 1) \div SAMPLES_SHORT

\* C16: at every emission the count lies in W .. W+N-1 and is the divisor
\* of the Leq, the count restarts from 0 and not from the overshoot, and
\* the emitting call is the ceil(W/N)-th of its window.
C16_NoCarry ==
    Called =>
        /\ ret.has =>
              /\ ret.n \in SAMPLES_LEQ .. (SAMPLES_LEQ + SAMPLES_SHORT - 1)
              /\ ret.n = call.accSamples
              /\ Leq_samples = 0
        /\ ret.has <=> window.calls = CallsPerWindow
        /\ window.calls <= CallsPerWindow

C16_Witness ==
    /\ ret.has /\ SAMPLES_LEQ % SAMPLES_SHORT # 0
    /\ ret.n > SAMPLES_LEQ /\ Leq_samples = 0 /\ fedOver

\* C17: the read of initMicrophone changes neither Leq_sum_sqr nor
\* Leq_samples nor a delay line, and the first value after it comes on the
\* same call of its window as every later one.
C17_StartupDiscarded ==
    [][/\ pc = "boot" =>
            /\ Leq_sum_sqr' = Leq_sum_sqr /\ Leq_samples' = Leq_samples
            /\ eqState' = eqState /\ wState' = wState
            /\ fed' = fed /\ window' = window
       /\ ret'.has => window'.calls = CallsPerWindow]_vars

C17_Witness ==
    /\ ~fedOver /\ ret.has /\ Len(fed) = CallsPerWindow * SAMPLES_SHORT
    /\ window.valid

\* C18: synchronize makes no loop test before one delay has been waited,
\* it has returned only if the clock value read by its last test is valid
\* (at least 8*3600*2 = 57600), so it never returns while the clock is
\* invalid; and once the clock is valid it eventually returns.
C18_Synchronize ==
    /\ [](sync_pc \in {"check", "done"} => sync_delays >= 1)
    /\ [](sync_pc = "done" => (sync_tm >= 57600 /\ tm_clock >= 57600))
    /\ [](tm_clock < 57600 => sync_pc # "done")
    /\ (tm_clock >= 57600) ~> (sync_pc = "done")

C18_Witness ==
    /\ sync_pc = "done" /\ sync_delays > 1 /\ ntp = "pending"
    /\ sync_tm = 57600

====
